---- MODULE Spec2Model ----
(***************************************************************************)
(* Scheduling simulator of src/Main.c: FIFO, non-preemptive SJF,           *)
(* Round-Robin and a 3-level MLFQ over the four built-in scenarios.        *)
(*                                                                         *)
(* Time.  Every double of the program is a whole number of tenths of a     *)
(* second in the built-in scenarios (QUANTUM = 0.5, demands and I/O data   *)
(* with one decimal), so a time is modelled as an integer count of ticks   *)
(* of 0.1 s.  The tolerances of the code (1e-9 and 1e-6 s) are far below   *)
(* one tick and far above the rounding error of the doubles, hence on      *)
(* whole ticks                                                             *)
(*     x <= EPS             is   x <= 0                                    *)
(*     fabs(x - y) < 1e-6   is   Abs(x - y) < TOL   (TOL = one tick)       *)
(*     x > y - 1e-9         is   x > y - TOL                               *)
(***************************************************************************)
EXTENDS Integers, Sequences, FiniteSets, TLC

\* ------------------------------------------------------------ bounds
\* largest value of the command line argument `repeat` that is explored
MaxRepeat == 2

\* ------------------------------------------------------------ constants
QUANTUM == 5
EPS == 0
TOL == 1
LEVELS == 3
\* -1.0: first_run_time / finish_time "not yet" (clone_processes)
UNSET == -10
\* -1.0: *io_dur when no I/O event was triggered (eat_cpu)
NO_IO == -10

\* values an uninitialised double of a malloc'ed array, or a double read
\* from a block that was already freed, may hold
Garbage == {-10, 7}

Abs(x) == IF x < 0 THEN -x ELSE x

\* ------------------------------------------------------------ types
IOEvent(w, d) == [when_cpu |-> w, duration |-> d]

\* A Process whose runtime fields were never written (make_scenarioN only
\* sets name, total_cpu_needed, io_events, io_count).  io_events is the
\* contents of the array the pointer refers to and io_mem the block it
\* lives in: "null" (no block), "base" (malloc'ed by make_scenarioN) or
\* "copy" (malloc'ed by clone_processes).
Process(nm, total, evs, g) ==
  [name |-> nm, total_cpu_needed |-> total, io_events |-> evs,
   io_mem |-> IF evs = <<>> THEN "null" ELSE "base",
   io_count |-> Len(evs),
   remaining |-> g, cpu_consumed |-> g, blocked_time |-> g,
   first_run_time |-> g, finish_time |-> g, next_io_index |-> g]

\* ------------------------------------------------------------ scenarios
make_scenario1(g) ==
  << Process("A", 100, <<>>, g), Process("B", 150, <<>>, g),
     Process("C", 200, <<>>, g) >>

make_scenario2(g) ==
  << Process("A", 50, <<>>, g), Process("B", 100, <<>>, g),
     Process("C", 40, <<>>, g), Process("D", 20, <<>>, g),
     Process("E", 30, <<>>, g), Process("F", 150, <<>>, g) >>

make_scenario3(g) ==
  << Process("A", 50, << IOEvent(10, 5), IOEvent(30, 7) >>, g),
     Process("B", 50, << IOEvent(20, 4) >>, g),
     Process("C", 50, << IOEvent(5, 2), IOEvent(25, 10) >>, g) >>

make_scenario4(g) ==
  << Process("A", 60, << IOEvent(12, 6), IOEvent(40, 8) >>, g),
     Process("B", 60, << IOEvent(35, 5) >>, g),
     Process("C", 60, << IOEvent(8, 3), IOEvent(20, 4), IOEvent(45, 6) >>, g) >>

make_scenario(scen, g) ==
  CASE scen = 1 -> make_scenario1(g)
    [] scen = 2 -> make_scenario2(g)
    [] scen = 3 -> make_scenario3(g)
    [] scen = 4 -> make_scenario4(g)
    [] OTHER -> <<>>

\* ------------------------------------------------------------ utilities
\* variant: the I/O event array is not deep-copied
clone_processes_shallow(src) ==
  [k \in 1..Len(src) |->
     [src[k] EXCEPT !.remaining = src[k].total_cpu_needed,
                    !.cpu_consumed = 0,
                    !.blocked_time = 0,
                    !.first_run_time = UNSET,
                    !.finish_time = UNSET,
                    !.next_io_index = 0]]

clone_processes(src) ==
  [k \in 1..Len(src) |->
     [src[k] EXCEPT !.io_mem = IF src[k].io_count > 0 THEN "copy" ELSE "null",
                    !.remaining = src[k].total_cpu_needed,
                    !.cpu_consumed = 0,
                    !.blocked_time = 0,
                    !.first_run_time = UNSET,
                    !.finish_time = UNSET,
                    !.next_io_index = 0]]

\* free_processes(p, n) seen from the Process Definitions defs: every
\* definition whose io_events block is freed through p keeps a dangling
\* pointer, and what is read through it afterwards is arbitrary.
free_processes(ps, defs) ==
  LET freed == {k \in 1..Len(defs) :
                  \E j \in 1..Len(ps) : /\ ps[j].io_mem = "base"
                                         /\ ps[j].name = defs[k].name}
  IN IF freed = {} THEN {defs}
     ELSE { [k \in 1..Len(defs) |->
               IF k \in freed
               THEN [defs[k] EXCEPT !.io_events =
                       [j \in 1..Len(@) |-> IOEvent(g, g)]]
               ELSE defs[k]] : g \in Garbage }

\* variant: take is not limited by p->remaining
eat_cpu_noclamp(p, dt) ==
  IF p.next_io_index < p.io_count
  THEN LET ev == p.io_events[p.next_io_index + 1]
           cpu_until_io == ev.when_cpu - p.cpu_consumed
       IN IF cpu_until_io <= EPS
          THEN [p |-> [p EXCEPT !.next_io_index = @ + 1,
                                !.blocked_time = @ + ev.duration],
                taken |-> 0, io_dur |-> ev.duration]
          ELSE LET take == IF dt > cpu_until_io THEN cpu_until_io ELSE dt
                   q == [p EXCEPT !.cpu_consumed = @ + take,
                                  !.remaining = @ - take]
               IN IF Abs(q.cpu_consumed - ev.when_cpu) < TOL
                     \/ q.cpu_consumed > ev.when_cpu - TOL
                  THEN [p |-> [q EXCEPT !.next_io_index = @ + 1,
                                        !.blocked_time = @ + ev.duration],
                        taken |-> take, io_dur |-> ev.duration]
                  ELSE [p |-> q, taken |-> take, io_dur |-> NO_IO]
  ELSE [p |-> [p EXCEPT !.cpu_consumed = @ + dt,
                        !.remaining = @ - dt],
        taken |-> dt, io_dur |-> NO_IO]

\* variant: the event is triggered only once cpu_consumed is strictly
\* past when_cpu
eat_cpu_strict(p, dt) ==
  IF p.next_io_index < p.io_count
  THEN LET ev == p.io_events[p.next_io_index + 1]
           cpu_until_io == ev.when_cpu - p.cpu_consumed
       IN IF cpu_until_io <= EPS
          THEN [p |-> [p EXCEPT !.next_io_index = @ + 1,
                                !.blocked_time = @ + ev.duration],
                taken |-> 0, io_dur |-> ev.duration]
          ELSE LET take1 == IF dt > cpu_until_io THEN cpu_until_io ELSE dt
                   take == IF take1 > p.remaining THEN p.remaining ELSE take1
                   q == [p EXCEPT !.cpu_consumed = @ + take,
                                  !.remaining = @ - take]
               IN IF q.cpu_consumed > ev.when_cpu
                  THEN [p |-> [q EXCEPT !.next_io_index = @ + 1,
                                        !.blocked_time = @ + ev.duration],
                        taken |-> take, io_dur |-> ev.duration]
                  ELSE [p |-> q, taken |-> take, io_dur |-> NO_IO]
  ELSE LET take == IF dt > p.remaining THEN p.remaining ELSE dt
       IN [p |-> [p EXCEPT !.cpu_consumed = @ + take,
                           !.remaining = @ - take],
           taken |-> take, io_dur |-> NO_IO]

\* variant: the immediate branch forgets p->next_io_index++
eat_cpu_no_advance(p, dt) ==
  IF p.next_io_index < p.io_count
  THEN LET ev == p.io_events[p.next_io_index + 1]
           cpu_until_io == ev.when_cpu - p.cpu_consumed
       IN IF cpu_until_io <= EPS
          THEN [p |-> [p EXCEPT !.blocked_time = @ + ev.duration],
                taken |-> 0, io_dur |-> ev.duration]
          ELSE LET take1 == IF dt > cpu_until_io THEN cpu_until_io ELSE dt
                   take == IF take1 > p.remaining THEN p.remaining ELSE take1
                   q == [p EXCEPT !.cpu_consumed = @ + take,
                                  !.remaining = @ - take]
               IN IF Abs(q.cpu_consumed - ev.when_cpu) < TOL
                     \/ q.cpu_consumed > ev.when_cpu - TOL
                  THEN [p |-> [q EXCEPT !.next_io_index = @ + 1,
                                        !.blocked_time = @ + ev.duration],
                        taken |-> take, io_dur |-> ev.duration]
                  ELSE [p |-> q, taken |-> take, io_dur |-> NO_IO]
  ELSE LET take == IF dt > p.remaining THEN p.remaining ELSE dt
       IN [p |-> [p EXCEPT !.cpu_consumed = @ + take,
                           !.remaining = @ - take],
           taken |-> take, io_dur |-> NO_IO]

\* eat_cpu(p, dt, &taken, &io_dur): the process after the step, the CPU
\* taken and the I/O duration (NO_IO when no I/O event was triggered).
eat_cpu(p, dt) ==
  IF p.next_io_index < p.io_count
  THEN LET ev == p.io_events[p.next_io_index + 1]
           cpu_until_io == ev.when_cpu - p.cpu_consumed
       IN IF cpu_until_io <= EPS
          THEN [p |-> [p EXCEPT !.next_io_index = @ + 1,
                                !.blocked_time = @ + ev.duration],
                taken |-> 0, io_dur |-> ev.duration]
          ELSE LET take1 == IF dt > cpu_until_io THEN cpu_until_io ELSE dt
                   take == IF take1 > p.remaining THEN p.remaining ELSE take1
                   q == [p EXCEPT !.cpu_consumed = @ + take,
                                  !.remaining = @ - take]
               IN IF Abs(q.cpu_consumed - ev.when_cpu) < TOL
                     \/ q.cpu_consumed > ev.when_cpu - TOL
                  THEN [p |-> [q EXCEPT !.next_io_index = @ + 1,
                                        !.blocked_time = @ + ev.duration],
                        taken |-> take, io_dur |-> ev.duration]
                  ELSE [p |-> q, taken |-> take, io_dur |-> NO_IO]
  ELSE LET take == IF dt > p.remaining THEN p.remaining ELSE dt
       IN [p |-> [p EXCEPT !.cpu_consumed = @ + take,
                           !.remaining = @ - take],
           taken |-> take, io_dur |-> NO_IO]

\* variant: done only once remaining is below zero
is_done_negative(p) == p.remaining < 0

is_done(p) == p.remaining <= EPS

\* variant: Elapsed counted from the first run instead of from time 0
fill_result_since_first_run(p) ==
  [name |-> p.name,
   Elapsed |-> IF p.finish_time < 0 THEN 0 ELSE p.finish_time - p.first_run_time,
   CPU |-> p.cpu_consumed,
   BLOCKED |-> p.blocked_time,
   FirstRun |-> IF p.first_run_time < 0 THEN 0 ELSE p.first_run_time]

\* fill_result followed by the strcpy of the name at every call site
fill_result(p) ==
  [name |-> p.name,
   Elapsed |-> IF p.finish_time < 0 THEN 0 ELSE p.finish_time,
   CPU |-> p.cpu_consumed,
   BLOCKED |-> p.blocked_time,
   FirstRun |-> IF p.first_run_time < 0 THEN 0 ELSE p.first_run_time]

\* variant: without the test of the sentinel
first_run_always(q, clock) ==
  [q EXCEPT !.first_run_time = clock]

\* if (p->first_run_time < 0) p->first_run_time = t;
first_run(q, clock) ==
  [q EXCEPT !.first_run_time = IF @ < 0 THEN clock ELSE @]

\* variant: io_dur added without the test io_dur >= 0.0
advance_clock_unguarded(clock, tk, io) ==
  clock + tk + io

\* variant: the I/O duration is never added
advance_clock_cpu_only(clock, tk, io) ==
  clock + tk

\* t += taken; if (io_dur >= 0.0) t += io_dur;
advance_clock(clock, tk, io) ==
  clock + tk + (IF io >= 0 THEN io ELSE 0)

\* variant: the two results swapped (descending order)
cmp_total_cpu_desc(a, b) ==
  IF a.total_cpu_needed < b.total_cpu_needed THEN 1
  ELSE IF a.total_cpu_needed > b.total_cpu_needed THEN -1
  ELSE 0

cmp_total_cpu(a, b) ==
  IF a.total_cpu_needed < b.total_cpu_needed THEN -1
  ELSE IF a.total_cpu_needed > b.total_cpu_needed THEN 1
  ELSE 0

\* qsort(procs, n, sizeof(Process), cmp_total_cpu): the array ordered by
\* cmp_total_cpu.  The
\* order of elements that compare equal is left to the C library; rank (a
\* permutation of the positions) is the order this library gives them.
qsort(arr, rank) ==
  LET len == Len(arr)
      before(a, b) == \/ cmp_total_cpu(arr[a], arr[b]) < 0
                      \/ cmp_total_cpu(arr[a], arr[b]) = 0 /\ rank[a] < rank[b]
      pos(a) == 1 + Cardinality({b \in 1..len : before(b, a)})
  IN [k \in 1..len |-> arr[CHOOSE a \in 1..len : pos(a) = k]]

TieOrders(len) ==
  {f \in [1..len -> 1..len] : \A a, b \in 1..len : a # b => f[a] # f[b]}

\* ------------------------------------------------------------ state
VARIABLES
  alg, scenario, repeat,   \* argv[1], argv[2], argv[3] of main
  libc_rank,               \* the order the C library's qsort gives to ties
  base,                    \* main: Process *base (the Process Definitions)
  r, runs, out_count,      \* main: run index, runs[], out_count
  pc,                      \* where the program is
  heap_corrupt,            \* a write landed outside a malloc'ed block
  procs, res, t,           \* run_*: the cloned processes, res[], the clock
  i,                       \* run_fifo / run_sjf: loop index
  queue, qstart, qend,     \* run_rr: queue[], read index, write index
  queues, qcap,            \* run_mlfq: queues[LEVELS] (qsize = Len), qcap[]
  p, taken, io_dur,        \* run_*: the selected process and eat_cpu's outputs
  qidx, new_q,             \* run_mlfq: level taken from, level appended to
  rr_wait                  \* history of run_rr: per process, when its last
                           \* grant ended, how many processes were not done
                           \* then, and how long it waited for its latest grant

args == <<alg, scenario, repeat, libc_rank>>
fifovars == <<i>>
rrvars == <<queue, qstart, qend, rr_wait>>
mlfqvars == <<queues, qcap, qidx, new_q>>
vars == <<alg, scenario, repeat, libc_rank, base, r, runs, out_count, pc,
          heap_corrupt, procs, res, t, i, queue, qstart, qend, queues, qcap,
          p, taken, io_dur, qidx, new_q, rr_wait>>

Algorithms == {"fifo", "sjf", "rr", "mlfq"}
Scenarios == 1..4

n == Len(base)

NoWait == [k \in 1..n |-> [end |-> UNSET, active |-> 0, wait |-> UNSET, wait_n |-> 0]]

\* what main's locals and the run_* locals hold before the repeat loop
InitLocals ==
  /\ r = 0 /\ runs = <<>> /\ out_count = 0
  /\ pc = "main"
  /\ heap_corrupt = FALSE
  /\ procs = <<>> /\ res = <<>> /\ t = 0
  /\ i = 0
  /\ queue = <<>> /\ qstart = 0 /\ qend = 0
  /\ queues = <<>> /\ qcap = <<>>
  /\ p = 0 /\ taken = 0 /\ io_dur = NO_IO
  /\ qidx = -1 /\ new_q = -1
  /\ rr_wait = <<>>

\* main up to the repeat loop, with a valid algorithm and scenario
Init ==
  /\ alg \in Algorithms
  /\ scenario \in Scenarios
  /\ repeat \in 1..MaxRepeat
  /\ \E g \in Garbage : base = make_scenario(scenario, g)
  /\ libc_rank \in IF alg = "sjf" THEN TieOrders(Len(base))
                   ELSE {[k \in 1..Len(base) |-> k]}
  /\ InitLocals

\* the end of a run_* call and of the loop body of main that called it:
\* *out_count = idx; free_processes(procs, n); runs[r] = res; ++r
return_to_main ==
  /\ out_count' = Len(res)
  /\ base' \in free_processes(procs, base)
  /\ procs' = <<>>
  /\ runs' = Append(runs, res)
  /\ r' = r + 1
  /\ pc' = "main"

\* ------------------------------------------------------------ FIFO
run_fifo_begin ==
  /\ pc = "main" /\ r < repeat /\ alg = "fifo"
  /\ procs' = clone_processes(base)
  /\ res' = <<>> /\ t' = 0 /\ i' = 0 /\ out_count' = 0
  /\ pc' = "fifo_for"
  /\ UNCHANGED <<args, base, r, runs, heap_corrupt, rrvars, mlfqvars, p, taken, io_dur>>

\* for (i = 0; i < n; ++i) { p = &procs[i]; first_run_time ... }
\* and, when the loop is over, the return
for_head(next_pc) ==
  IF i < n
  THEN /\ p' = i + 1
       /\ procs' = [procs EXCEPT ![i + 1] = first_run(@, t)]
       /\ pc' = next_pc
       /\ UNCHANGED <<base, r, runs, out_count>>
  ELSE /\ return_to_main
       /\ UNCHANGED p

\* while (!is_done(p)) { eat_cpu(p, p->remaining, ...); t += ... }
\* p->finish_time = t; fill_result(&res[idx++], p); strcpy(...)
while_body(next_pc) ==
  IF ~is_done(procs[p])
  THEN LET e == eat_cpu(procs[p], procs[p].remaining)
       IN /\ procs' = [procs EXCEPT ![p] = e.p]
          /\ taken' = e.taken /\ io_dur' = e.io_dur
          /\ t' = advance_clock(t, e.taken, e.io_dur)
          /\ UNCHANGED <<res, i, pc>>
  ELSE LET q == [procs[p] EXCEPT !.finish_time = t]
       IN /\ procs' = [procs EXCEPT ![p] = q]
          /\ res' = Append(res, fill_result(q))
          /\ i' = i + 1
          /\ pc' = next_pc
          /\ UNCHANGED <<taken, io_dur, t>>

run_fifo_for ==
  /\ pc = "fifo_for"
  /\ for_head("fifo_while")
  /\ UNCHANGED <<args, heap_corrupt, res, t, i, rrvars, mlfqvars, taken, io_dur>>

run_fifo_while ==
  /\ pc = "fifo_while"
  /\ while_body("fifo_for")
  /\ UNCHANGED <<args, base, r, runs, out_count, heap_corrupt, rrvars, mlfqvars, p>>

\* ------------------------------------------------------------ SJF
run_sjf_begin ==
  /\ pc = "main" /\ r < repeat /\ alg = "sjf"
  /\ procs' = qsort(clone_processes(base), libc_rank)
  /\ res' = <<>> /\ t' = 0 /\ i' = 0 /\ out_count' = 0
  /\ pc' = "sjf_for"
  /\ UNCHANGED <<args, base, r, runs, heap_corrupt, rrvars, mlfqvars, p, taken, io_dur>>

run_sjf_for ==
  /\ pc = "sjf_for"
  /\ for_head("sjf_while")
  /\ UNCHANGED <<args, heap_corrupt, res, t, i, rrvars, mlfqvars, taken, io_dur>>

run_sjf_while ==
  /\ pc = "sjf_while"
  /\ while_body("sjf_for")
  /\ UNCHANGED <<args, base, r, runs, out_count, heap_corrupt, rrvars, mlfqvars, p>>

\* ------------------------------------------------------------ RR
run_rr_begin ==
  /\ pc = "main" /\ r < repeat /\ alg = "rr"
  /\ procs' = clone_processes(base)
  /\ queue' = [k \in 1..n |-> k] /\ qstart' = 0 /\ qend' = n
  /\ res' = <<>> /\ t' = 0 /\ out_count' = 0
  /\ rr_wait' = NoWait
  /\ pc' = "rr_loop"
  /\ UNCHANGED <<args, base, r, runs, heap_corrupt, fifovars, mlfqvars, p, taken, io_dur>>

\* number of slots of malloc(sizeof(Process*) * n * 2)
rr_slots == n * 2

\* variant: twice the quantum
rr_dt_double(q) == QUANTUM * 2

\* the budget of eat_cpu(p, QUANTUM, &taken, &io_dur) in run_rr
rr_dt(q) == QUANTUM

\* variant: the read index is advanced before the read (queue[++qstart])
rr_head_preincrement(q, a) == IF a + 2 <= Len(q) THEN q[a + 2] ELSE q[a + 1]

\* Process *p = queue[qstart++]: the entry that is read
rr_head(q, a) == q[a + 1]

\* one iteration of while (qstart < qend), or the return when it ends
run_rr_loop ==
  /\ pc = "rr_loop"
  /\ IF qstart < qend
     THEN LET k == rr_head(queue, qstart)
              e == eat_cpu(first_run(procs[k], t), rr_dt(procs[k]))
              t1 == advance_clock(t, e.taken, e.io_dur)
          IN /\ p' = k /\ qstart' = qstart + 1
             /\ taken' = e.taken /\ io_dur' = e.io_dur
             /\ t' = t1
             /\ IF ~is_done(e.p)
                THEN /\ procs' = [procs EXCEPT ![k] = e.p]
                     /\ res' = res
                     /\ IF qend < rr_slots
                        THEN /\ queue' = Append(queue, k) /\ qend' = qend + 1
                             /\ UNCHANGED <<heap_corrupt, pc>>
                        ELSE \* queue[qend++] = p outside the block: the write
                             \* lands in the neighbouring heap memory, or an
                             \* instrumented build stops the program
                             \/ /\ queue' = Append(queue, k) /\ qend' = qend + 1
                                /\ heap_corrupt' = TRUE
                                /\ pc' = pc
                             \/ /\ pc' = "crashed"
                                /\ UNCHANGED <<queue, qend, heap_corrupt>>
                ELSE /\ procs' = [procs EXCEPT ![k] = [e.p EXCEPT !.finish_time = t1]]
                     /\ res' = Append(res, fill_result(procs'[k]))
                     /\ UNCHANGED <<queue, qend, heap_corrupt, pc>>
             /\ rr_wait' = [rr_wait EXCEPT ![k] =
                  [end |-> t1,
                   active |-> Cardinality({j \in 1..n : ~is_done(procs'[j])}),
                   wait |-> IF @.end = UNSET THEN UNSET ELSE t - @.end,
                   wait_n |-> @.active]]
             /\ UNCHANGED <<base, r, runs, out_count>>
     ELSE /\ return_to_main
          /\ UNCHANGED <<res, t, queue, qstart, qend, rr_wait, heap_corrupt,
                         p, taken, io_dur>>
  /\ UNCHANGED <<args, fifovars, mlfqvars>>

\* ------------------------------------------------------------ MLFQ
run_mlfq_begin ==
  /\ pc = "main" /\ r < repeat /\ alg = "mlfq"
  /\ procs' = clone_processes(base)
  /\ queues' = [l \in 0..(LEVELS - 1) |->
                  IF l = 0 THEN [k \in 1..n |-> k] ELSE <<>>]
  /\ qcap' = [l \in 0..(LEVELS - 1) |-> n + 4]
  /\ res' = <<>> /\ t' = 0 /\ out_count' = 0
  /\ qidx' = -1 /\ new_q' = -1
  /\ pc' = "mlfq_loop"
  /\ UNCHANGED <<args, base, r, runs, heap_corrupt, fifovars, rrvars, p, taken, io_dur>>

qsize(l) == Len(queues[l])

\* variant: the scan keeps the last non-empty level instead of the first
first_nonempty_last ==
  IF \E l \in 0..(LEVELS - 1) : qsize(l) > 0
  THEN CHOOSE l \in 0..(LEVELS - 1) :
         /\ qsize(l) > 0
         /\ \A m \in (l + 1)..(LEVELS - 1) : ~(qsize(m) > 0)
  ELSE -1

\* for (i = 0; i < LEVELS; ++i) if (qsize[i] > 0) { qidx = i; break; }
first_nonempty ==
  IF \E l \in 0..(LEVELS - 1) : qsize(l) > 0
  THEN CHOOSE l \in 0..(LEVELS - 1) :
         /\ qsize(l) > 0
         /\ \A m \in 0..(l - 1) : ~(qsize(m) > 0)
  ELSE -1

\* variant: a process cut short by I/O is moved one level up
next_level_boost(lv, tk) ==
  IF Abs(tk - QUANTUM) < TOL \/ tk > QUANTUM - TOL
  THEN (IF lv < LEVELS - 1 THEN lv + 1 ELSE lv)
  ELSE (IF lv > 0 THEN lv - 1 ELSE lv)

\* variant: demoted after every step, whatever was taken
next_level_always(lv, tk) ==
  IF lv < LEVELS - 1 THEN lv + 1 ELSE lv

\* variant: the quantum test is strict (taken > QUANTUM)
next_level_strict(lv, tk) ==
  IF tk > QUANTUM
  THEN (IF lv < LEVELS - 1 THEN lv + 1 ELSE lv)
  ELSE lv

\* the level a process that is not done is appended to
next_level(lv, tk) ==
  IF Abs(tk - QUANTUM) < TOL \/ tk > QUANTUM - TOL
  THEN (IF lv < LEVELS - 1 THEN lv + 1 ELSE lv)
  ELSE lv

\* one iteration of while (1), or the return when every level is empty
run_mlfq_loop ==
  /\ pc = "mlfq_loop"
  /\ IF first_nonempty # -1
     THEN LET lv == first_nonempty
              k == queues[lv][1]
              popped == [queues EXCEPT ![lv] = Tail(@)]
              e == eat_cpu(first_run(procs[k], t), QUANTUM)
              t1 == advance_clock(t, e.taken, e.io_dur)
              nq == next_level(lv, e.taken)
          IN /\ p' = k /\ qidx' = lv
             /\ taken' = e.taken /\ io_dur' = e.io_dur
             /\ t' = t1
             /\ IF is_done(e.p)
                THEN /\ procs' = [procs EXCEPT ![k] = [e.p EXCEPT !.finish_time = t1]]
                     /\ res' = Append(res, fill_result(procs'[k]))
                     /\ queues' = popped
                     /\ UNCHANGED <<qcap, new_q>>
                ELSE /\ procs' = [procs EXCEPT ![k] = e.p]
                     /\ res' = res
                     /\ new_q' = nq
                     /\ qcap' = IF Len(popped[nq]) >= qcap[nq]
                                THEN [qcap EXCEPT ![nq] = @ * 2] ELSE qcap
                     /\ queues' = [popped EXCEPT ![nq] = Append(@, k)]
             /\ UNCHANGED <<base, r, runs, out_count, pc>>
     ELSE /\ return_to_main
          /\ UNCHANGED <<res, t, queues, qcap, qidx, new_q, p, taken, io_dur>>
  /\ UNCHANGED <<args, heap_corrupt, fifovars, rrvars>>

\* ------------------------------------------------------------ main
\* after the repeat loop: accumulate_results, print_results, cleanup
main_exit ==
  /\ pc = "main" /\ r >= repeat
  /\ pc' = "exit"
  /\ UNCHANGED <<args, base, r, runs, out_count, heap_corrupt, procs, res, t,
                 fifovars, rrvars, mlfqvars, p, taken, io_dur>>

\* Once a write has landed outside its block the allocator's bookkeeping is
\* damaged: any later malloc or free may abort the program.
heap_abort ==
  /\ heap_corrupt
  /\ \/ pc = "rr_loop" /\ ~(qstart < qend)   \* free(queue), free_processes
     \/ pc = "main"                           \* the mallocs that follow
  /\ pc' = "crashed"
  /\ UNCHANGED <<args, base, r, runs, out_count, heap_corrupt, procs, res, t,
                 fifovars, rrvars, mlfqvars, p, taken, io_dur>>

Next ==
  \/ run_fifo_begin \/ run_fifo_for \/ run_fifo_while
  \/ run_sjf_begin \/ run_sjf_for \/ run_sjf_while
  \/ run_rr_begin \/ run_rr_loop
  \/ run_mlfq_begin \/ run_mlfq_loop
  \/ main_exit
  \/ heap_abort

Spec == Init /\ [][Next]_vars

\* The run_* functions applied to any Process Definitions of the data model:
\* the built-in scenarios and a definition set (scenario 0) with an I/O
\* event on a quantum boundary, I/O events at total_cpu_needed and a demand
\* that is not a whole number of quanta.
boundary_defs(g) ==
  << Process("X", 10, << IOEvent(5, 2), IOEvent(10, 3) >>, g),
     Process("Y", 7, << IOEvent(7, 1) >>, g),
     Process("Z", 8, <<>>, g) >>

InitDefs ==
  /\ alg \in Algorithms
  /\ scenario \in Scenarios \cup {0}
  /\ repeat \in 1..MaxRepeat
  /\ \E g \in Garbage :
       base = IF scenario = 0 THEN boundary_defs(g) ELSE make_scenario(scenario, g)
  /\ libc_rank \in IF alg = "sjf" THEN TieOrders(Len(base))
                   ELSE {[k \in 1..Len(base) |-> k]}
  /\ InitLocals

SpecDefs == InitDefs /\ [][Next]_vars

\* ------------------------------------------------------------ properties
\* the Process Definition called nm
Def(nm) == base[CHOOSE k \in 1..n : base[k].name = nm]

RECURSIVE SumDur(_, _)
\* sum of the durations of the first k events of evs
SumDur(evs, k) == IF k = 0 THEN 0 ELSE SumDur(evs, k - 1) + evs[k].duration

\* the record sequences of the finished runs and of the current run
RecordLists == {runs[x] : x \in 1..Len(runs)} \cup {res}
Records == UNION {{rs[k] : k \in 1..Len(rs)} : rs \in RecordLists}

\* a step inside one run_* call (neither its first nor its last step)
InRun == pc \notin {"main", "exit", "crashed"} /\ pc' \notin {"main", "exit"}

\* C1: under every policy and built-in scenario the run ends, and when it
\* has ended exactly one Metrics Record has been emitted for every process
\* (out_count = n, each name once); the program never stops in a run.
C1_Total ==
  /\ pc # "crashed"
  /\ \A x \in 1..Len(runs) :
       /\ Len(runs[x]) = n
       /\ \A k \in 1..n : Cardinality({j \in 1..n : runs[x][j].name = base[k].name}) = 1
  /\ (pc \in {"main", "exit"} /\ r > 0) => out_count = n

\* C2: no process consumes more CPU than its total demand, and when its
\* record is emitted cpu_consumed = total_cpu_needed and remaining = 0.
C2_Conservation ==
  /\ \A k \in 1..Len(procs) :
       /\ procs[k].cpu_consumed <= procs[k].total_cpu_needed
       /\ procs[k].finish_time >= 0 =>
            /\ procs[k].cpu_consumed = procs[k].total_cpu_needed
            /\ procs[k].remaining = 0
  /\ \A rec \in Records : rec.CPU = Def(rec.name).total_cpu_needed

\* a last slice shorter than the quantum has completed a process, and a
\* process with I/O events has completed
C2_Witness ==
  /\ alg = "rr" /\ scenario = 0 /\ pc = "rr_loop"
  /\ p \in 1..Len(procs)
  /\ procs[p].name = "Z" /\ procs[p].finish_time >= 0 /\ taken = 3
  /\ \E k \in 1..Len(procs) : procs[k].finish_time >= 0 /\ procs[k].io_count > 0

\* C3: at every step blocked_time is the sum of the durations of the events
\* with index < next_io_index, these are exactly the events with
\* when_cpu <= cpu_consumed, and at completion next_io_index = io_count and
\* BLOCKED is the sum of all durations of the process.
C3_BlockedAdditivity ==
  /\ \A k \in 1..Len(procs) :
       LET q == procs[k] IN
       /\ q.next_io_index \in 0..q.io_count
       /\ q.blocked_time = SumDur(q.io_events, q.next_io_index)
       /\ \A j \in 1..q.io_count :
            (j <= q.next_io_index) <=> (q.io_events[j].when_cpu <= q.cpu_consumed)
       /\ q.finish_time >= 0 => q.next_io_index = q.io_count
  /\ \A rec \in Records :
       rec.BLOCKED = SumDur(Def(rec.name).io_events, Def(rec.name).io_count)

\* an event at total_cpu_needed, reached at the end of a full quantum, has
\* been counted in an emitted record
C3_Witness ==
  /\ scenario = 0 /\ alg = "rr" /\ pc = "rr_loop"
  /\ taken = QUANTUM /\ io_dur = 3
  /\ \E rec \in Records : rec.name = "X" /\ rec.BLOCKED = 5

\* C4: inside a run the clock never decreases; finish_time is set once, to
\* the clock of the step in which the process became done (the clock does
\* not move between becoming done and the assignment).
C4_ClockMonotonic ==
  [][InRun =>
       /\ t' >= t
       /\ \A k \in 1..Len(procs) :
            /\ procs[k].finish_time >= 0 =>
                 procs'[k].finish_time = procs[k].finish_time
            /\ (procs[k].finish_time < 0 /\ procs'[k].finish_time >= 0) =>
                 /\ procs'[k].finish_time = t'
                 /\ is_done(procs'[k])
            /\ (is_done(procs[k]) /\ procs[k].finish_time < 0) =>
                 /\ t' = t
                 /\ procs'[k].finish_time = t
            /\ (~is_done(procs[k]) /\ is_done(procs'[k])) =>
                 procs'[k].finish_time \in {UNSET, t'}]_vars

C4_Witness ==
  /\ Len(res) >= 2
  /\ \E k \in 1..Len(procs) :
       /\ procs[k].finish_time > 0 /\ procs[k].blocked_time > 0
       /\ procs[k].finish_time = t

\* C5: in every emitted record 0 <= FirstRun <= Elapsed; first_run_time is
\* set once, to the clock at which the process is first selected, and never
\* changes afterwards.
C5_FirstRun ==
  /\ [](\A rec \in Records : 0 <= rec.FirstRun /\ rec.FirstRun <= rec.Elapsed)
  /\ [][InRun =>
          \A k \in 1..Len(procs) :
            /\ procs[k].first_run_time >= 0 =>
                 procs'[k].first_run_time = procs[k].first_run_time
            /\ (procs[k].first_run_time < 0 /\ procs'[k].first_run_time >= 0) =>
                 /\ procs'[k].first_run_time = t
                 /\ p' = k
            /\ (p' = k /\ p' # p) => procs'[k].first_run_time >= 0]_vars

C5_Witness ==
  /\ alg = "rr" /\ scenario = 3
  /\ \E rec \in Records : 0 < rec.FirstRun /\ rec.FirstRun < rec.Elapsed
  /\ \E k \in 1..Len(procs) : procs[k].first_run_time = 5 /\ p = k /\ t > 100

\* C6: under run_sjf, of two processes with different total_cpu_needed the
\* one with the smaller demand has FirstRun <= the other's FirstRun.
C6_SjfOrdering ==
  alg = "sjf" =>
    /\ \A k, j \in 1..Len(procs) :
         (procs[k].total_cpu_needed < procs[j].total_cpu_needed
            /\ procs[j].first_run_time >= 0) =>
           /\ procs[k].first_run_time >= 0
           /\ procs[k].first_run_time <= procs[j].first_run_time
    /\ \A rs \in RecordLists : \A a, b \in 1..Len(rs) :
         Def(rs[a].name).total_cpu_needed < Def(rs[b].name).total_cpu_needed
           => rs[a].FirstRun <= rs[b].FirstRun

C6_Witness ==
  /\ alg = "sjf" /\ scenario = 2 /\ Len(runs) >= 1
  /\ Len(runs[1]) = 6 /\ runs[1][1].name = "D" /\ runs[1][6].name = "F"

\* C7: under run_rr on scenario 1 or 2, a process that is not done waits at
\* most (n' - 1) * QUANTUM between the end of one of its grants and the
\* start of its next grant, n' being the number of processes that were not
\* done when the wait began (all of them are active during that wait).
C7_RrFairness ==
  (alg = "rr" /\ scenario \in {1, 2}) =>
    \A k \in 1..Len(rr_wait) :
      rr_wait[k].wait # UNSET =>
        rr_wait[k].wait <= (rr_wait[k].wait_n - 1) * QUANTUM

C7_Witness ==
  /\ alg = "rr" /\ scenario = 2
  /\ \E k \in 1..Len(rr_wait) :
       /\ rr_wait[k].wait_n = 4
       /\ rr_wait[k].wait = 3 * QUANTUM

\* C8: under run_mlfq the level of a process never decreases from one step
\* to the next and is always one of 0..2.
LevelOf(qs, k) ==
  CHOOSE l \in DOMAIN qs : \E x \in 1..Len(qs[l]) : qs[l][x] = k
Queued(qs, k) ==
  \E l \in DOMAIN qs : \E x \in 1..Len(qs[l]) : qs[l][x] = k

C8_MlfqMonotonic ==
  /\ [](pc = "mlfq_loop" =>
          /\ DOMAIN queues = 0..2
          /\ new_q \in -1..2
          /\ \A k \in 1..n : ~is_done(procs[k]) => Queued(queues, k))
  /\ [][(pc = "mlfq_loop" /\ pc' = "mlfq_loop") =>
          /\ \A k \in 1..n :
               (Queued(queues, k) /\ Queued(queues', k)) =>
                 LevelOf(queues', k) >= LevelOf(queues, k)
          /\ ~is_done(procs'[p']) => (new_q' >= qidx' /\ Queued(queues', p')
                                       /\ LevelOf(queues', p') = new_q')]_vars

C8_Witness ==
  /\ alg = "mlfq" /\ pc = "mlfq_loop" /\ scenario = 4
  /\ qidx = 1 /\ new_q = 1 /\ taken < QUANTUM /\ io_dur >= 0
  /\ p \in 1..Len(procs)
  /\ ~is_done(procs[p])

\* C9: the runs of one execution (same policy, same scenario) yield the same
\* sequence of records; no step changes the Process Definitions; a run
\* starts from clones with fresh runtime state and their own event arrays.
C9_Determinism ==
  /\ [](\A a, b \in 1..Len(runs) : runs[a] = runs[b])
  /\ [][base' = base]_vars
  /\ [][(pc = "main" /\ pc' \notin {"main", "exit", "crashed"}) =>
          /\ Len(procs') = n
          /\ \A k \in 1..n :
               /\ procs'[k].remaining = procs'[k].total_cpu_needed
               /\ procs'[k].cpu_consumed = 0 /\ procs'[k].blocked_time = 0
               /\ procs'[k].first_run_time < 0 /\ procs'[k].finish_time < 0
               /\ procs'[k].next_io_index = 0
               /\ procs'[k].io_mem # "base"
               /\ \E j \in 1..n :
                    /\ procs'[k].name = base[j].name
                    /\ procs'[k].total_cpu_needed = base[j].total_cpu_needed
                    /\ procs'[k].io_events = base[j].io_events]_vars

C9_Witness ==
  /\ Len(runs) >= 2 /\ scenario = 4 /\ alg = "mlfq"
  /\ Len(runs[2]) = 3 /\ runs[2][1].name = "B" /\ runs[2][1].BLOCKED = 5

\* C10: run_fifo on scenario 1 emits A, B, C with Elapsed 10, 25, 45,
\* CPU 10, 15, 20, BLOCKED 0, 0, 0 and FirstRun 0, 10, 25 (in ticks of 0.1).
C10_Expected ==
  << [name |-> "A", Elapsed |-> 100, CPU |-> 100, BLOCKED |-> 0, FirstRun |-> 0],
     [name |-> "B", Elapsed |-> 250, CPU |-> 150, BLOCKED |-> 0, FirstRun |-> 100],
     [name |-> "C", Elapsed |-> 450, CPU |-> 200, BLOCKED |-> 0, FirstRun |-> 250] >>

C10_FifoScenario1 ==
  (alg = "fifo" /\ scenario = 1) =>
    /\ \A x \in 1..Len(runs) : runs[x] = C10_Expected
    /\ Len(res) <= 3 /\ res = SubSeq(C10_Expected, 1, Len(res))

C10_Witness ==
  alg = "fifo" /\ scenario = 1 /\ pc = "exit" /\ Len(runs) >= 1 /\ Len(runs[1]) = 3

\* run_fifo restated as a function of the definitions: the process q run
\* until it is done, starting at clock
RECURSIVE RunToDone(_, _)
RunToDone(q, clock) ==
  IF is_done(q) THEN [p |-> q, t |-> clock]
  ELSE LET e == eat_cpu(q, q.remaining)
       IN RunToDone(e.p, advance_clock(clock, e.taken, e.io_dur))

RECURSIVE FifoRecords(_, _, _)
\* the records of the processes ps[k..] run one after the other from clock
FifoRecords(ps, k, clock) ==
  IF k > Len(ps) THEN <<>>
  ELSE LET d == RunToDone(first_run(ps[k], clock), clock)
       IN <<fill_result([d.p EXCEPT !.finish_time = d.t])>>
            \o FifoRecords(ps, k + 1, d.t)

\* position of the process called nm in the definitions
DefIndex(nm) == CHOOSE k \in 1..n : base[k].name = nm

\* C11: run_sjf executes the processes in ascending total_cpu_needed, equal
\* demands in definition order; on scenarios 3 and 4 (all demands equal) it
\* runs A, B, C and returns the records run_fifo returns.
C11_SjfStable ==
  alg = "sjf" =>
    /\ pc \in {"sjf_for", "sjf_while"} =>
         \A a, b \in 1..Len(procs) : a < b =>
           /\ procs[a].total_cpu_needed <= procs[b].total_cpu_needed
           /\ procs[a].total_cpu_needed = procs[b].total_cpu_needed =>
                DefIndex(procs[a].name) < DefIndex(procs[b].name)
    /\ scenario \in {3, 4} =>
         \A x \in 1..Len(runs) :
           runs[x] = FifoRecords(clone_processes(base), 1, 0)

\* a scheduling step of run_mlfq (some level is not empty) that completes
MlfqStep ==
  /\ pc = "mlfq_loop" /\ pc' = "mlfq_loop"
  /\ \E l \in DOMAIN queues : Len(queues[l]) > 0

\* the process selected by the step is appended to a higher-numbered level
\* than the one it was taken from
Demoted ==
  /\ Queued(queues', p')
  /\ LevelOf(queues', p') > LevelOf(queues, p')

Without(q, k) == LET Other(x) == x # k IN SelectSeq(q, Other)

\* C13: after a step of run_mlfq in which the process taken from level L is
\* not done, it is at the tail of level min(L + 1, 2) if taken = QUANTUM and
\* at the tail of level L if taken < QUANTUM; and a process that is not done
\* after taking less than QUANTUM triggered an I/O event in that step.
C13_NextLevel ==
  [][MlfqStep =>
       LET k == p'
           L == LevelOf(queues, k)
           dest == IF taken' = QUANTUM THEN (IF L + 1 < 2 THEN L + 1 ELSE 2) ELSE L
           popped(l) == IF l = L THEN Tail(queues[l]) ELSE queues[l]
       IN /\ taken' <= QUANTUM
          /\ procs'[k].remaining > 0 =>
               /\ \A l \in 0..2 :
                    queues'[l] = IF l = dest THEN Append(popped(l), k) ELSE popped(l)
               /\ taken' < QUANTUM => io_dur' >= 0]_vars

C13_Witness ==
  /\ alg = "mlfq" /\ pc = "mlfq_loop"
  /\ qidx = 2 /\ new_q = 2 /\ taken = QUANTUM
  /\ p \in 1..Len(procs) /\ procs[p].remaining > 0
  /\ Len(queues[2]) >= 2 /\ queues[2][Len(queues[2])] = p

\* C14: every step of run_mlfq gives the CPU to the head of the
\* lowest-numbered level that is not empty (so every level above the one
\* served is empty), and the other processes of a level keep their order.
C14_StrictPriority ==
  [][MlfqStep =>
       /\ qidx' \in 0..2
       /\ Len(queues[qidx']) > 0
       /\ \A m \in 0..(qidx' - 1) : Len(queues[m]) = 0
       /\ p' = Head(queues[qidx'])
       /\ procs'[p'].cpu_consumed = procs[p'].cpu_consumed + taken'
       /\ \A k \in 1..n : k # p' => procs'[k] = procs[k]
       /\ \A l \in 0..2 : Without(queues'[l], p') = Without(queues[l], p')]_vars

C14_Witness ==
  /\ alg = "mlfq" /\ pc = "mlfq_loop" /\ scenario = 4
  /\ qidx = 1 /\ Len(queues[0]) = 0 /\ Len(queues[1]) >= 2 /\ Len(queues[2]) >= 1
  /\ p \in 1..Len(procs) /\ queues[2][Len(queues[2])] = p

\* The run_* functions applied to definitions that may also have an I/O
\* event at when_cpu = 0 (scenario -1), which eat_cpu triggers at once.
zero_io_defs(g) ==
  << Process("W", 6, << IOEvent(0, 2), IOEvent(5, 1) >>, g),
     Process("V", 5, <<>>, g) >>

InitAnyDefs ==
  /\ alg \in Algorithms
  /\ scenario \in Scenarios \cup {0, -1}
  /\ repeat \in 1..MaxRepeat
  /\ \E g \in Garbage :
       base = IF scenario = 0 THEN boundary_defs(g)
              ELSE IF scenario = -1 THEN zero_io_defs(g)
              ELSE make_scenario(scenario, g)
  /\ libc_rank \in IF alg = "sjf" THEN TieOrders(Len(base))
                   ELSE {[k \in 1..Len(base) |-> k]}
  /\ InitLocals

SpecAnyDefs == InitAnyDefs /\ [][Next]_vars

\* a step that calls eat_cpu (a Consumption Step); the process is p'
EatStep ==
  \/ pc \in {"fifo_while", "sjf_while"} /\ procs[p].remaining > 0
  \/ pc = "rr_loop" /\ qstart < qend
  \/ pc = "mlfq_loop" /\ \E l \in DOMAIN queues : Len(queues[l]) > 0

\* C15: every Consumption Step strictly decreases remaining or strictly
\* increases next_io_index of the process it is applied to, which was not
\* done; next_io_index never decreases and never exceeds io_count, and
\* remaining never increases.
C15_Progress ==
  [][InRun =>
       /\ \A k \in 1..Len(procs) :
            /\ procs'[k].next_io_index >= procs[k].next_io_index
            /\ procs'[k].next_io_index <= procs'[k].io_count
            /\ procs'[k].remaining <= procs[k].remaining
            /\ procs'[k].remaining >= 0
       /\ EatStep =>
            /\ procs[p'].remaining > 0
            /\ \/ procs'[p'].remaining < procs[p'].remaining
               \/ procs'[p'].next_io_index > procs[p'].next_io_index]_vars

\* a Consumption Step that consumed no CPU and advanced next_io_index
C15_Witness ==
  /\ scenario = -1 /\ alg = "mlfq" /\ pc = "mlfq_loop"
  /\ p \in 1..Len(procs) /\ procs[p].name = "W"
  /\ taken = 0 /\ io_dur = 2
  /\ procs[p].next_io_index = 1 /\ procs[p].remaining = 6

\* the entries of the RR queue that were not read yet
PendingOf(q, a, b) == SubSeq(q, a + 1, b)

\* the processes that are not done, in definition order
NotDoneSeq == LET Unfinished(k) == procs[k].remaining > 0
              IN SelectSeq([k \in 1..n |-> k], Unfinished)

\* the sequence sq started at its element number s + 1
Rotation(sq, s) == [x \in 1..Len(sq) |-> sq[((x - 1 + s) % Len(sq)) + 1]]

\* a scheduling step of run_rr (the queue is not empty) that completes
RrStep == pc = "rr_loop" /\ qstart < qend /\ pc' = "rr_loop"

\* C16: the RR queue starts with all processes in definition order; every
\* step reads the head and, if the process is not done, appends it at the
\* tail whether the step ended by the quantum or by an I/O event (whose
\* duration is on the clock before the next process runs); the processes
\* that are not done stay in cyclic definition order.
C16_RrQueueDiscipline ==
  /\ [](pc = "rr_loop" =>
          \/ /\ NotDoneSeq = <<>>
             /\ PendingOf(queue, qstart, qend) = <<>>
          \/ \E s \in 0..(Len(NotDoneSeq) - 1) :
               PendingOf(queue, qstart, qend) = Rotation(NotDoneSeq, s))
  /\ [][(pc = "main" /\ pc' = "rr_loop") =>
          PendingOf(queue', qstart', qend') = [k \in 1..n |-> k]]_vars
  /\ [][RrStep =>
          LET pend == PendingOf(queue, qstart, qend) IN
          /\ p' = Head(pend)
          /\ t' = t + taken' + (IF io_dur' >= 0 THEN io_dur' ELSE 0)
          /\ PendingOf(queue', qstart', qend') =
               IF procs'[p'].remaining > 0 THEN Append(Tail(pend), p')
               ELSE Tail(pend)]_vars

\* a step cut short by an I/O event has put the process back at the tail
C16_Witness ==
  /\ alg = "rr" /\ scenario = 4 /\ pc = "rr_loop"
  /\ taken = 2 /\ io_dur = 6 /\ p = 1
  /\ PendingOf(queue, qstart, qend) = <<2, 3, 1>>
  /\ t = 39

\* how many entries of the ready queue(s) refer to process k
RrEntries(k) == Cardinality({x \in (qstart + 1)..qend : queue[x] = k})
MlfqEntries(k) ==
  Cardinality({lx \in (DOMAIN queues) \X (1..n) :
                 lx[2] <= Len(queues[lx[1]]) /\ queues[lx[1]][lx[2]] = k})
\* how many records of the current run carry the name of process k
Emitted(k) == Cardinality({x \in 1..Len(res) : res[x].name = procs[k].name})

\* C17: between scheduling steps of run_rr and run_mlfq every process that
\* is not done is in the ready queue(s) exactly once and every done process
\* in none and has exactly one record; the process a step selects is not
\* done; in run_mlfq the sizes of the levels sum to the number of unfinished
\* processes.
C17_QueueMembership ==
  /\ [](pc = "rr_loop" =>
          \A k \in 1..n :
            IF procs[k].remaining > 0
            THEN RrEntries(k) = 1 /\ Emitted(k) = 0 /\ procs[k].finish_time < 0
            ELSE RrEntries(k) = 0 /\ Emitted(k) = 1 /\ procs[k].finish_time >= 0)
  /\ [](pc = "mlfq_loop" =>
          /\ \A k \in 1..n :
               IF procs[k].remaining > 0
               THEN MlfqEntries(k) = 1 /\ Emitted(k) = 0 /\ procs[k].finish_time < 0
               ELSE MlfqEntries(k) = 0 /\ Emitted(k) = 1 /\ procs[k].finish_time >= 0
          /\ Len(queues[0]) + Len(queues[1]) + Len(queues[2])
               = Cardinality({k \in 1..n : procs[k].remaining > 0})
          /\ Len(queues[0]) + Len(queues[1]) + Len(queues[2]) <= n)
  /\ [][((pc = "rr_loop" /\ qstart < qend)
           \/ (pc = "mlfq_loop" /\ \E l \in DOMAIN queues : Len(queues[l]) > 0)) =>
          /\ procs[p'].remaining > 0
          /\ procs[p'].finish_time < 0]_vars

C17_Witness ==
  /\ alg = "mlfq" /\ scenario = 2 /\ pc = "mlfq_loop"
  /\ Len(res) = 3 /\ Len(queues[2]) = 3
  /\ procs[4].remaining = 0 /\ MlfqEntries(4) = 0 /\ MlfqEntries(6) = 1

RECURSIVE SumCpuBlocked(_, _)
\* cpu_consumed + blocked_time summed over the first k processes of ps
SumCpuBlocked(ps, k) ==
  IF k = 0 THEN 0
  ELSE SumCpuBlocked(ps, k - 1) + ps[k].cpu_consumed + ps[k].blocked_time

RECURSIVE SumDemand(_, _)
\* total_cpu_needed plus all I/O durations of the first k definitions
SumDemand(defs, k) ==
  IF k = 0 THEN 0
  ELSE SumDemand(defs, k - 1) + defs[k].total_cpu_needed
         + SumDur(defs[k].io_events, defs[k].io_count)

\* C18: inside a run the clock equals the sum over all processes of
\* cpu_consumed plus the sum of blocked_time, and the Elapsed of the last
\* record of a run is the total CPU demand plus the total I/O duration.
C18_ClockAccounting ==
  /\ pc \in {"fifo_for", "fifo_while", "sjf_for", "sjf_while",
             "rr_loop", "mlfq_loop"} =>
       t = SumCpuBlocked(procs, Len(procs))
  /\ \A x \in 1..Len(runs) :
       Len(runs[x]) = n => runs[x][n].Elapsed = SumDemand(base, n)

C18_Witness ==
  /\ alg = "rr" /\ scenario = 4 /\ Len(runs) >= 1
  /\ Len(runs[1]) = 3 /\ runs[1][3].Elapsed = 212

\* C19 (as stated): in run_rr the write index never exceeds the 2 * n slots
\* that were allocated, so every write queue[qend++] is inside the array.
C19_RrQueueBounds ==
  alg = "rr" => (qend <= rr_slots /\ ~heap_corrupt)

\* C20: for definitions whose I/O events have strictly increasing
\* when_cpu > 0, no Consumption Step takes the immediate-trigger branch of
\* eat_cpu (the pending event is always more than EPS of CPU away), every
\* Consumption Step consumes CPU and triggers at most one I/O event.
C20_NoZeroCpuStep ==
  [][EatStep =>
       LET q == procs[p'] IN
       /\ q.next_io_index < q.io_count =>
            q.io_events[q.next_io_index + 1].when_cpu - q.cpu_consumed > EPS
       /\ taken' > 0
       /\ procs'[p'].cpu_consumed = q.cpu_consumed + taken'
       /\ procs'[p'].next_io_index - q.next_io_index \in {0, 1}
       /\ (procs'[p'].next_io_index = q.next_io_index + 1) <=> (io_dur' >= 0)]_vars

\* a step after one that reached an I/O boundary exactly consumed a whole
\* quantum: the event had been triggered by the step that reached it
C20_Witness ==
  /\ alg = "rr" /\ scenario = 3 /\ pc = "rr_loop"
  /\ p = 3 /\ procs[3].cpu_consumed = 10 /\ procs[3].next_io_index = 1
  /\ procs[3].blocked_time = 2
  /\ taken = QUANTUM /\ io_dur = NO_IO

====
